---- MODULE Spec2Model ----
(***************************************************************************)
(* A model of pytorch-ssd's Open Images dataset loader                     *)
(* (vision/datasets/open_images.py) and of the training script             *)
(* (train_ssd.py).                                                         *)
(*                                                                         *)
(*   Spec      OpenImagesDataset: __init__ (_read_data, _balance_data),    *)
(*             __getitem__, __len__, __repr__                              *)
(*   SpecMain  train_ssd.py's __main__ block: start-up and the epoch loop  *)
(*   SpecTrain train_ssd.py's train(): one training pass over the loader   *)
(*                                                                         *)
(* Conventions.  Python sequences are 0-based, TLA+ sequences 1-based: a   *)
(* Python index i is position i + 1 here.  A value that may be None is     *)
(* <<>> for None and <<v>> for the value v.  Learning rates are counted in *)
(* units of 0.001.  A float quotient a / b is kept as the pair <<a, b>>.   *)
(***************************************************************************)
EXTENDS Integers, Sequences, FiniteSets, TLC

\* ------------------------------------------------------------------ bounds
MaxRows == 3        \* annotation rows in the CSV
MaxImages == 2      \* distinct ImageID values
MaxClasses == 2     \* distinct ClassName values
MaxEpochs == 3      \* --num-epochs
MaxInterval == 3    \* --validation-epochs, --checkpoint-epochs
MaxStoredEpoch == 2 \* training_epoch of a checkpoint given to --resume
MaxSamples == 4     \* images in the training dataset
MaxBatchSize == 2   \* --batch-size
MaxDebugSteps == 2  \* --debug-steps

ImageIDs == 1..MaxImages
\* class names are not their labels: name 10 * k, k the name's number
ClassNames == {10 * k : k \in 1..MaxClasses}

Range(s) == {s[k] : k \in 1..Len(s)}

Min(S) == CHOOSE x \in S : \A y \in S : x <= y

RECURSIVE SeqsUpTo(_, _)
\* all sequences over S of length at most n
SeqsUpTo(S, n) ==
    IF n = 0 THEN {<<>>}
    ELSE LET shorter == SeqsUpTo(S, n - 1)
         IN  shorter \cup {Append(s, x) : s \in {t \in shorter : Len(t) = n - 1}, x \in S}

\* all orders in which a set can be iterated
Orders(S) ==
    {s \in [1..Cardinality(S) -> S] : \A i, j \in 1..Cardinality(S) : i # j => s[i] # s[j]}

\* the set's elements in ascending order
RECURSIVE Sorted(_)
Sorted(S) == IF S = {} THEN <<>> ELSE <<Min(S)>> \o Sorted(S \ {Min(S)})

VARIABLES
    \* ---- OpenImagesDataset
    annotations,        \* the rows of sub-<type>-annotations-bbox.csv
    pc,                 \* position of the dataset's life: new, balance, sample, ready, error
    data,               \* self.data
    read_data,          \* the records _read_data returned, as they were before balancing
    class_names,        \* self.class_names
    class_dict,         \* self.class_dict
    balance_data,       \* self.balance_data
    min_image_num,      \* self.min_image_num
    class_stat,         \* self.class_stat: NoStat for None, else <<the dict>>
    label_image_indexes,    \* _balance_data's local
    sample_image_indexes,   \* _balance_data's local
    next_label,         \* the label the sampling loop of _balance_data handles next
    got                 \* outcome of the call the caller has made and not yet taken

dvars == <<annotations, pc, data, read_data, class_names, class_dict, balance_data, min_image_num,
           class_stat, label_image_indexes, sample_image_indexes, next_label, got>>

VARIABLES
    \* ---- train_ssd.py, __main__
    cli,                \* the command line: each option as given, <<>> when it is not given
    args,               \* parser.parse_args()
    mpc,                \* position of the script
    error,              \* the exception or exit that ended the script, "" for none
    report,             \* the lines of the loss report file
    requires_grad,      \* per part of the net: do its parameters take gradients
    params,             \* the parameter groups handed to SGD
    param_groups,       \* optimizer.param_groups
    last_epoch,
    r_epoch,
    epoch,              \* the loop variable
    val_loss,
    model_path,         \* <<>> while the name is unbound
    executed,           \* the epochs train() was called for, in order
    validated,          \* the epochs test() was called for, in order
    saved,              \* the calls of net.save, in order
    updates             \* per part of the net: optimizer updates its parameters took

mvars == <<cli, args, mpc, error, report, requires_grad, params, param_groups, last_epoch,
           r_epoch, epoch, val_loss, model_path, executed, validated, saved, updates>>

VARIABLES
    \* ---- train_ssd.py, train()
    loader,             \* the DataLoader: dataset size and batch size
    debug_steps,
    tpc,                \* position of train(): call, loop, done
    batch_i,            \* i, enumerate's index of the batch handled last
    consumed,           \* samples the loader has handed out in this pass
    running,            \* running_loss, running_regression_loss, running_classification_loss
    epoch_totals,       \* epoch_loss, epoch_regression_loss, epoch_classification_loss
    epoch_steps,
    batch_losses,       \* the losses criterion returned in this pass, in order
    logged,             \* the averages logged in this pass, in order
    result              \* what train() returned, <<>> before it returns

tvars == <<loader, debug_steps, tpc, batch_i, consumed, running, epoch_totals, epoch_steps,
           batch_losses, logged, result>>

vars == <<dvars, mvars, tvars>>

\* ------------------------------------------------------ _read_data (36-50)

\* one CSV row: its ImageID, its ClassName; the row's four box coordinates
\* are identified by the row itself
Rows == [ImageID : ImageIDs, ClassName : ClassNames]

RECURSIVE Unique(_)
\* pandas Series.unique(): the values in order of first appearance
Unique(s) ==
    IF s = <<>> THEN <<>>
    ELSE LET front == Unique(SubSeq(s, 1, Len(s) - 1))
             last == s[Len(s)]
         IN  IF last \in Range(front) THEN front ELSE Append(front, last)

\* Python's i of enumerate(class_names) for a name of the list
EnumIndex(names, name) == (CHOOSE k \in 1..Len(names) : names[k] = name) - 1

\* ClassLabel without the + 1: labels from 0
ClassLabelOff(i) == i

\* the label of the i-th (0-based) class name
ClassLabel(i) == i + 1

ClassDict(names) == [name \in Range(names) |-> ClassLabel(EnumIndex(names, name))]

RECURSIVE SelectRows(_, _, _)
\* the row numbers >= k of the rows of image_id, in encounter order
SelectRows(ann, image_id, k) ==
    IF k > Len(ann) THEN <<>>
    ELSE (IF ann[k].ImageID = image_id THEN <<k>> ELSE <<>>) \o SelectRows(ann, image_id, k + 1)

\* one group of annotations.groupby("ImageID") as an image record
ImageRecord(ann, dict, image_id) ==
    LET group == SelectRows(ann, image_id, 1)
    IN  [image_id |-> image_id,
         boxes |-> group,
         labels |-> [k \in 1..Len(group) |-> dict[ann[group[k]].ClassName]]]

\* groupby iterates the groups in ascending key order
GroupBy(ann, dict) ==
    LET keys == Sorted({ann[k].ImageID : k \in 1..Len(ann)})
    IN  [k \in 1..Len(keys) |-> ImageRecord(ann, dict, keys[k])]

ReadDataResult(ann) ==
    LET names == Unique([k \in 1..Len(ann) |-> ann[k].ClassName])
        dict == ClassDict(names)
    IN  [data |-> GroupBy(ann, dict), class_names |-> names, class_dict |-> dict]

\* --------------------------------------------------- _balance_data (79-93)

\* lines 80-83: per label 0..N the set of (0-based) indexes of the images
\* that hold a box of the label
LabelImageIndexes(d, names) ==
    [label_id \in 0..Len(names) |->
        {i \in 0..(Len(d) - 1) : label_id \in Range(d[i + 1].labels)}]

\* MinImageNum over label_stat instead of label_stat[1:]
MinImageNumWithBackground(lii) ==
    Min({Cardinality(lii[c]) : c \in DOMAIN lii})

\* lines 84-85: min(label_stat[1:])
MinImageNum(lii) ==
    Min({Cardinality(lii[c]) : c \in (DOMAIN lii) \ {0}})

\* np.random.choice(n, size): size draws from 0..n-1, with replacement
RandomChoice(n, size) == [1..size -> 0..(n - 1)]

\* ------------------------------------------------ __getitem__ (25-34)

\* ListIndex without the wrap of negative indexes
ListIndexNoWrap(len, index) ==
    IF 0 <= index /\ index < len THEN index + 1 ELSE 0

\* Python's list[index]: the 1-based position read, 0 for IndexError
ListIndex(len, index) ==
    IF 0 <= index /\ index < len THEN index + 1
    ELSE IF -len <= index /\ index < 0 THEN len + index + 1
    ELSE 0

\* the indexes tried on a list of len records: every one in range, every
\* negative one that wraps, and one beyond at either end
GetIndexes(len) == (-(len + 1))..(len + 1)

NoCall == [op |-> "none"]

\* self.class_stat is None, or <<the dict>>
NoStat == <<>>

\* ------------------------------------------- train_ssd.py: start-up

DefaultLr == 10             \* --lr, default 0.01
DefaultBaseNetLr == 1       \* --base-net-lr, default 0.001

KnownNets == {"vgg16-ssd", "mb1-ssd", "mb1-ssd-lite", "sq-ssd-lite", "mb2-ssd-lite"}
KnownSchedulers == {"multi-step", "cosine", "reduce-on-plateau"}

\* the sub-modules of the SSD net whose parameters the script groups
Parts == {"base_net", "source_layer_add_ons", "extras",
          "regression_headers", "classification_headers"}

\* a checkpoint as net.save writes it: the epoch and the optimizer's state,
\* of which the learning rates of its three groups are kept here
Checkpoints ==
    [training_epoch : 0..MaxStoredEpoch, lrs : {<<1, 10, 10>>, <<3, 7, 9>>}]

CommandLines ==
    [lr : {<<>>, <<20>>},
     base_net_lr : {<<>>, <<5>>},
     extra_layers_lr : {<<>>, <<2>>},
     freeze_base_net : BOOLEAN,
     freeze_net : BOOLEAN,
     resume : {<<>>} \cup {<<c>> : c \in Checkpoints},
     num_epochs : 1..MaxEpochs,
     validation_epochs : 1..MaxInterval,
     checkpoint_epochs : 1..MaxInterval,
     net : {"mb1-ssd", "resnet-ssd"},
     scheduler : {"cosine", "warm-restarts"}]

\* BaseNetLrDefault with default=None
BaseNetLrDefaultNone == <<>>

\* the parser's default of --base-net-lr (line 66)
BaseNetLrDefault == <<DefaultBaseNetLr>>

\* parser.parse_args(): an option not given takes the parser's default
ParseArgs(c) ==
    [c EXCEPT !.lr = IF c.lr = <<>> THEN DefaultLr ELSE c.lr[1],
              !.base_net_lr = IF c.base_net_lr = <<>> THEN BaseNetLrDefault ELSE c.base_net_lr]

\* lines 307-308: x if x is not None else args.lr
OrLr(opt, lr) == IF opt # <<>> THEN opt[1] ELSE lr

\* freeze_net_layers (vision/utils/misc.py): the parameters of the part stop
\* taking gradients
FreezeNetLayers(rg, frozen) == [p \in Parts |-> IF p \in frozen THEN FALSE ELSE rg[p]]

\* lines 310-342: the parts frozen by the flags
FrozenParts(a) ==
    IF a.freeze_base_net THEN {"base_net"}
    ELSE IF a.freeze_net THEN {"base_net", "source_layer_add_ons", "extras"}
    ELSE {}

\* lines 310-342: what is handed to SGD; a group without 'lr' has lr <<>>,
\* and the bare iterator of the freeze_net branch is one such group
BuildParams(a) ==
    LET base_net_lr == OrLr(a.base_net_lr, a.lr)
        extra_layers_lr == OrLr(a.extra_layers_lr, a.lr)
        extra_group == [parts |-> {"source_layer_add_ons", "extras"}, lr |-> <<extra_layers_lr>>]
        head_group == [parts |-> {"regression_headers", "classification_headers"}, lr |-> <<>>]
    IN  IF a.freeze_base_net THEN <<extra_group, head_group>>
        ELSE IF a.freeze_net THEN <<head_group>>
        ELSE <<[parts |-> {"base_net"}, lr |-> <<base_net_lr>>], extra_group, head_group>>

\* torch.optim.SGD(params, lr=args.lr): a group without its own lr takes lr
SGD(p, lr) == [k \in 1..Len(p) |-> [parts |-> p[k].parts, lr |-> OrLr(p[k].lr, lr)]]

\* optimizer.load_state_dict: the stored groups' settings replace the
\* optimizer's; the caller checks that there are as many of them
LoadStateDict(groups, ckpt) ==
    [k \in 1..Len(groups) |-> [parts |-> groups[k].parts, lr |-> ckpt.lrs[k]]]

\* FirstEpoch with range(last_epoch, ...)
FirstEpochRepeated(last) == last

\* line 433: range(last_epoch + 1, ...)
FirstEpoch(last) == last + 1

\* line 433: range(..., args.num_epochs + r_epoch + 1), exclusive
EndEpoch(a, r) == a.num_epochs + r + 1

\* line 439
ValidationDue(a, e) == e % a.validation_epochs = 0 \/ e = a.num_epochs - 1

\* line 456
CheckpointDue(a, e) == e % a.checkpoint_epochs = 0 \/ e = a.num_epochs - 1

\* line 217, written by writeheader()
HeaderLine ==
    [kind |-> "header",
     fieldnames |-> <<"epoch", "learning_rate", "training_loss", "training_regression_loss",
                      "training_classification_loss", "validation_loss",
                      "validation_regression_loss", "validation_classification_loss">>]

\* AppendTo with the file opened with 'w'
OverwriteWith(file, line) == <<line>>

\* lines 220 and 441: open(report_path, 'a') and a write
AppendTo(file, line) == Append(file, line)

\* lines 443-447: the row of an epoch; of its float columns the validation
\* loss is kept
ReportRow(e, loss) == [kind |-> "row", epoch |-> e, validation_loss |-> loss]

\* line 454: the checkpoint name holds the epoch and the validation loss
ModelPath(e, loss) == [epoch |-> e, loss |-> loss]

\* the validation losses test() may return
ValLosses == {4, 6}

NoArgs == [lr |-> 0]

MainStart ==
    /\ args = NoArgs
    /\ mpc = "start"
    /\ error = ""
    /\ report = <<>>
    /\ requires_grad = [p \in Parts |-> TRUE]
    /\ params = <<>>
    /\ param_groups = <<>>
    /\ last_epoch = -1
    /\ r_epoch = 0
    /\ epoch = -1
    /\ val_loss = 0
    /\ model_path = <<>>
    /\ executed = <<>>
    /\ validated = <<>>
    /\ saved = <<>>
    /\ updates = [p \in Parts |-> 0]

\* the script is not run
MainIdle ==
    /\ cli = NoArgs
    /\ MainStart

\* ------------------------------------------- train_ssd.py: train()

\* the regression and classification losses criterion may return
RegressionLosses == {1, 2}
ClassificationLosses == {0, 4}

\* LoaderLen as len(loader.dataset)
LoaderLenInSamples(l) == l.size

\* len(loader) of a DataLoader that keeps the last, shorter batch
LoaderLen(l) == (l.size + l.batch_size - 1) \div l.batch_size

Zeros == [loss |-> 0, regression_loss |-> 0, classification_loss |-> 0]

\* lines 146-151: the batch's losses are added to the totals
AddLosses(totals, regression_loss, classification_loss) ==
    [loss |-> totals.loss + (regression_loss + classification_loss),
     regression_loss |-> totals.regression_loss + regression_loss,
     classification_loss |-> totals.classification_loss + classification_loss]

\* the float quotients totals / n
Averages(totals, n) ==
    [loss |-> <<totals.loss, n>>,
     regression_loss |-> <<totals.regression_loss, n>>,
     classification_loss |-> <<totals.classification_loss, n>>]

TrainLocalsUnset ==
    /\ batch_i = -1
    /\ consumed = 0
    /\ running = Zeros
    /\ epoch_totals = Zeros
    /\ epoch_steps = 0
    /\ batch_losses = <<>>
    /\ logged = <<>>
    /\ result = <<>>

\* train() is not called
TrainIdle ==
    /\ loader = [size |-> 0, batch_size |-> 0]
    /\ debug_steps = 0
    /\ tpc = "idle"
    /\ TrainLocalsUnset

\* ------------------------------------------- OpenImagesDataset: actions

DataInit ==
    /\ annotations \in SeqsUpTo(Rows, MaxRows)
    /\ balance_data \in BOOLEAN
    /\ pc = "new"
    /\ data = <<>>
    /\ read_data = <<>>
    /\ class_names = <<>>
    /\ class_dict = <<>>
    /\ min_image_num = -1
    /\ class_stat = NoStat
    /\ label_image_indexes = <<>>
    /\ sample_image_indexes = {}
    /\ next_label = 0
    /\ got = NoCall
    /\ MainIdle
    /\ TrainIdle

\* __init__, lines 17-20 (and 23 when no balancing is asked for)
ReadData ==
    /\ pc = "new"
    /\ LET r == ReadDataResult(annotations)
       IN  /\ data' = r.data
           /\ read_data' = r.data
           /\ class_names' = r.class_names
           /\ class_dict' = r.class_dict
    /\ min_image_num' = -1
    /\ pc' = IF balance_data THEN "balance" ELSE "ready"
    /\ UNCHANGED <<annotations, balance_data, class_stat, label_image_indexes,
                   sample_image_indexes, next_label, got>>
    /\ UNCHANGED <<mvars, tvars>>

\* _balance_data, lines 80-86; min() of an empty list raises ValueError
BalanceIndex ==
    /\ pc = "balance"
    /\ LET lii == LabelImageIndexes(data, class_names)
       IN  /\ label_image_indexes' = lii
           /\ IF Len(class_names) = 0
              THEN /\ pc' = "error"
                   /\ got' = [op |-> "init", status |-> "ValueError"]
                   /\ UNCHANGED min_image_num
              ELSE /\ pc' = "sample"
                   /\ min_image_num' = MinImageNum(lii)
                   /\ UNCHANGED got
    /\ sample_image_indexes' = {}
    /\ next_label' = 1
    /\ UNCHANGED <<annotations, data, read_data, class_names, class_dict, balance_data, class_stat>>
    /\ UNCHANGED <<mvars, tvars>>

\* _balance_data, lines 87-91: one iteration of the loop over the labels
BalanceSample ==
    /\ pc = "sample"
    /\ next_label <= Len(class_names)
    /\ \E image_indexes \in Orders(label_image_indexes[next_label]) :
         \E choice \in RandomChoice(Len(image_indexes), min_image_num) :
            sample_image_indexes' =
                sample_image_indexes \cup {image_indexes[choice[k] + 1] : k \in 1..min_image_num}
    /\ next_label' = next_label + 1
    /\ UNCHANGED <<annotations, pc, data, read_data, class_names, class_dict, balance_data,
                   min_image_num, class_stat, label_image_indexes, got>>
    /\ UNCHANGED <<mvars, tvars>>

\* _balance_data, lines 92-93, and __init__, lines 21-23; a set is iterated
\* in an order the program does not fix
BalanceFinish ==
    /\ pc = "sample"
    /\ next_label > Len(class_names)
    /\ \E order \in Orders(sample_image_indexes) :
          data' = [k \in 1..Len(order) |-> data[order[k] + 1]]
    /\ pc' = "ready"
    /\ UNCHANGED <<annotations, read_data, class_names, class_dict, balance_data, min_image_num,
                   class_stat, label_image_indexes, sample_image_indexes, next_label, got>>
    /\ UNCHANGED <<mvars, tvars>>

\* __getitem__ with no transform and no target_transform configured;
\* cv2.imread returns None for a file it cannot read, and None has no shape
GetItem ==
    /\ pc = "ready"
    /\ got = NoCall
    /\ \E index \in GetIndexes(Len(data)), readable \in BOOLEAN :
         LET at == ListIndex(Len(data), index)
         IN  got' = IF at = 0
                    THEN [op |-> "getitem", index |-> index, status |-> "IndexError"]
                    ELSE IF ~readable
                    THEN [op |-> "getitem", index |-> index, status |-> "AttributeError"]
                    ELSE [op |-> "getitem", index |-> index, status |-> "ok",
                          image |-> data[at].image_id,
                          boxes |-> data[at].boxes,
                          labels |-> data[at].labels]
    /\ UNCHANGED <<annotations, pc, data, read_data, class_names, class_dict, balance_data,
                   min_image_num, class_stat, label_image_indexes, sample_image_indexes,
                   next_label>>
    /\ UNCHANGED <<mvars, tvars>>

\* __len__, lines 52-53
GetLen ==
    /\ pc = "ready"
    /\ got = NoCall
    /\ got' = [op |-> "len", status |-> "ok", value |-> Len(data)]
    /\ UNCHANGED <<annotations, pc, data, read_data, class_names, class_dict, balance_data,
                   min_image_num, class_stat, label_image_indexes, sample_image_indexes,
                   next_label>>
    /\ UNCHANGED <<mvars, tvars>>

\* ClassStat with one count per image that holds the label
ClassStatPerImage(d, names) ==
    [name \in Range(names) |->
        Cardinality({n \in 1..Len(d) : (EnumIndex(names, name) + 1) \in Range(d[n].labels)})]

\* the label statistics of __repr__, lines 57-61: one count per label entry
ClassStat(d, names) ==
    [name \in Range(names) |->
        LET class_index == EnumIndex(names, name) + 1
            Entries(example) == {k \in 1..Len(example.labels) : example.labels[k] = class_index}
            RECURSIVE Total(_)
            Total(n) == IF n = 0 THEN 0 ELSE Total(n - 1) + Cardinality(Entries(d[n]))
        IN  Total(Len(d))]

\* __repr__, lines 55-68
Repr ==
    /\ pc = "ready"
    /\ got = NoCall
    /\ class_stat' = IF class_stat = NoStat THEN <<ClassStat(data, class_names)>> ELSE class_stat
    /\ got' = [op |-> "repr", status |-> "ok",
               images |-> Len(data),
               min_image_num |-> min_image_num,
               distribution |-> class_stat'[1]]
    /\ UNCHANGED <<annotations, pc, data, read_data, class_names, class_dict, balance_data,
                   min_image_num, label_image_indexes, sample_image_indexes, next_label>>
    /\ UNCHANGED <<mvars, tvars>>

\* the single-threaded caller takes the outcome of its call before it makes
\* the next one
Return ==
    /\ pc = "ready"
    /\ got # NoCall
    /\ got' = NoCall
    /\ UNCHANGED <<annotations, pc, data, read_data, class_names, class_dict, balance_data,
                   min_image_num, class_stat, label_image_indexes, sample_image_indexes,
                   next_label>>
    /\ UNCHANGED <<mvars, tvars>>

DataNext ==
    \/ ReadData
    \/ BalanceIndex
    \/ BalanceSample
    \/ BalanceFinish
    \/ GetItem
    \/ GetLen
    \/ Repr
    \/ Return

Spec == DataInit /\ [][DataNext]_vars

\* the dataset is not used
DataIdle ==
    /\ annotations = <<>>
    /\ balance_data = FALSE
    /\ pc = "idle"
    /\ data = <<>>
    /\ read_data = <<>>
    /\ class_names = <<>>
    /\ class_dict = <<>>
    /\ min_image_num = -1
    /\ class_stat = NoStat
    /\ label_image_indexes = <<>>
    /\ sample_image_indexes = {}
    /\ next_label = 0
    /\ got = NoCall

\* ------------------------------------------- train_ssd.py: actions

MainInit ==
    /\ cli \in CommandLines
    /\ MainStart
    /\ DataIdle
    /\ TrainIdle

\* the script ends with an exception (or with sys.exit)
Ended(how, what) ==
    /\ mpc' = how
    /\ error' = what

\* line 111 and lines 207-222: the arguments are parsed, the report file is
\* created and its header written
Start ==
    /\ mpc = "start"
    /\ args' = ParseArgs(cli)
    /\ report' = AppendTo(report, HeaderLine)
    /\ mpc' = "net"
    /\ UNCHANGED <<cli, error, requires_grad, params, param_groups, last_epoch, r_epoch,
                   epoch, val_loss, model_path, executed, validated, saved, updates>>
    /\ UNCHANGED <<dvars, tvars>>

\* lines 224-243
SelectNet ==
    /\ mpc = "net"
    /\ IF args.net \in KnownNets
       THEN mpc' = "build" /\ UNCHANGED error
       ELSE Ended("exit", "sys.exit(1)")
    /\ UNCHANGED <<cli, args, report, requires_grad, params, param_groups, last_epoch,
                   r_epoch, epoch, val_loss, model_path, executed, validated, saved, updates>>
    /\ UNCHANGED <<dvars, tvars>>

\* lines 299-342: the net is created, parts of it are frozen and the
\* parameter groups are put together
BuildNet ==
    /\ mpc = "build"
    /\ last_epoch' = -1
    /\ r_epoch' = 0
    /\ requires_grad' = FreezeNetLayers(requires_grad, FrozenParts(args))
    /\ params' = BuildParams(args)
    /\ mpc' = "optimizer"
    /\ UNCHANGED <<cli, args, error, report, param_groups, epoch, val_loss, model_path,
                   executed, validated, saved, updates>>
    /\ UNCHANGED <<dvars, tvars>>

\* lines 363-369; load_state_dict raises ValueError when the checkpoint has
\* another number of parameter groups than the optimizer
MakeOptimizer ==
    /\ mpc = "optimizer"
    /\ LET groups == SGD(params, args.lr)
       IN  IF args.resume = <<>>
           THEN /\ param_groups' = groups
                /\ mpc' = "log_lr"
                /\ UNCHANGED <<error, last_epoch, r_epoch>>
           ELSE IF Len(args.resume[1].lrs) # Len(groups)
           THEN /\ param_groups' = groups
                /\ Ended("crashed", "ValueError")
                /\ UNCHANGED <<last_epoch, r_epoch>>
           ELSE /\ param_groups' = LoadStateDict(groups, args.resume[1])
                /\ r_epoch' = args.resume[1].training_epoch
                /\ last_epoch' = args.resume[1].training_epoch
                /\ mpc' = "log_lr"
                /\ UNCHANGED error
    /\ UNCHANGED <<cli, args, report, requires_grad, params, epoch, val_loss, model_path,
                   executed, validated, saved, updates>>
    /\ UNCHANGED <<dvars, tvars>>

\* lines 405-409: param_groups[2], [0] and [1] are read
LogLearningRates ==
    /\ mpc = "log_lr"
    /\ IF Len(param_groups) > 2
       THEN mpc' = "scheduler" /\ UNCHANGED error
       ELSE Ended("crashed", "IndexError")
    /\ UNCHANGED <<cli, args, report, requires_grad, params, param_groups, last_epoch,
                   r_epoch, epoch, val_loss, model_path, executed, validated, saved, updates>>
    /\ UNCHANGED <<dvars, tvars>>

\* the loop header of line 433 with the loop variable at e
LoopAt(e) ==
    /\ epoch' = e
    /\ mpc' = IF e < EndEpoch(args, r_epoch) THEN "train" ELSE "done"

\* lines 411-433: the scheduler is chosen and the loop is entered
MakeScheduler ==
    /\ mpc = "scheduler"
    /\ IF args.scheduler \in KnownSchedulers
       THEN LoopAt(FirstEpoch(last_epoch)) /\ UNCHANGED error
       ELSE Ended("exit", "sys.exit(1)") /\ UNCHANGED epoch
    /\ UNCHANGED <<cli, args, report, requires_grad, params, param_groups, last_epoch,
                   r_epoch, val_loss, model_path, executed, validated, saved, updates>>
    /\ UNCHANGED <<dvars, tvars>>

\* lines 434-437: train() updates the parameters that are in a group of the
\* optimizer and take gradients
TrainEpoch ==
    /\ mpc = "train"
    /\ val_loss' = 0
    /\ executed' = Append(executed, epoch)
    /\ updates' = [p \in Parts |->
            IF requires_grad[p] /\ \E k \in 1..Len(param_groups) : p \in param_groups[k].parts
            THEN updates[p] + 1 ELSE updates[p]]
    /\ mpc' = "validate"
    /\ UNCHANGED <<cli, args, error, report, requires_grad, params, param_groups, last_epoch,
                   r_epoch, epoch, model_path, validated, saved>>
    /\ UNCHANGED <<dvars, tvars>>

\* lines 439-454
Validate ==
    /\ mpc = "validate"
    /\ ValidationDue(args, epoch)
    /\ \E loss \in ValLosses :
          /\ val_loss' = loss
          /\ report' = AppendTo(report, ReportRow(epoch, loss))
          /\ model_path' = <<ModelPath(epoch, loss)>>
    /\ validated' = Append(validated, epoch)
    /\ mpc' = "checkpoint"
    /\ UNCHANGED <<cli, args, error, requires_grad, params, param_groups, last_epoch,
                   r_epoch, epoch, executed, saved, updates>>
    /\ UNCHANGED <<dvars, tvars>>

\* line 439, the condition is false
SkipValidation ==
    /\ mpc = "validate"
    /\ ~ValidationDue(args, epoch)
    /\ mpc' = "checkpoint"
    /\ UNCHANGED <<cli, args, error, report, requires_grad, params, param_groups, last_epoch,
                   r_epoch, epoch, val_loss, model_path, executed, validated, saved, updates>>
    /\ UNCHANGED <<dvars, tvars>>

\* lines 456-461 and the loop header; reading model_path while it is unbound
\* raises NameError
SaveCheckpoint ==
    /\ mpc = "checkpoint"
    /\ CheckpointDue(args, epoch)
    /\ IF model_path = <<>>
       THEN /\ Ended("crashed", "NameError")
            /\ UNCHANGED <<saved, epoch>>
       ELSE /\ saved' = Append(saved, [model_path |-> model_path[1], training_epoch |-> epoch])
            /\ LoopAt(epoch + 1)
            /\ UNCHANGED error
    /\ UNCHANGED <<cli, args, report, requires_grad, params, param_groups, last_epoch,
                   r_epoch, val_loss, model_path, executed, validated, updates>>
    /\ UNCHANGED <<dvars, tvars>>

\* line 456, the condition is false; line 461 and the loop header
SkipCheckpoint ==
    /\ mpc = "checkpoint"
    /\ ~CheckpointDue(args, epoch)
    /\ LoopAt(epoch + 1)
    /\ UNCHANGED <<cli, args, error, report, requires_grad, params, param_groups, last_epoch,
                   r_epoch, val_loss, model_path, executed, validated, saved, updates>>
    /\ UNCHANGED <<dvars, tvars>>

MainNext ==
    \/ Start
    \/ SelectNet
    \/ BuildNet
    \/ MakeOptimizer
    \/ LogLearningRates
    \/ MakeScheduler
    \/ TrainEpoch
    \/ Validate
    \/ SkipValidation
    \/ SaveCheckpoint
    \/ SkipCheckpoint

SpecMain == MainInit /\ [][MainNext]_vars

\* ------------------------------------------- train_ssd.py: train(), actions

\* a loader over a dataset that is not empty (a shuffling DataLoader cannot
\* be made over an empty one)
TrainInit ==
    /\ loader \in [size : 1..MaxSamples, batch_size : 1..MaxBatchSize]
    /\ debug_steps \in 1..MaxDebugSteps
    /\ tpc = "call"
    /\ TrainLocalsUnset
    /\ DataIdle
    /\ MainIdle

\* lines 124-131; train() is called once per epoch
TrainBegin ==
    /\ tpc \in {"call", "done"}
    /\ batch_i' = -1
    /\ consumed' = 0
    /\ running' = Zeros
    /\ epoch_totals' = Zeros
    /\ epoch_steps' = 0
    /\ batch_losses' = <<>>
    /\ logged' = <<>>
    /\ result' = <<>>
    /\ tpc' = "loop"
    /\ UNCHANGED <<loader, debug_steps>>
    /\ UNCHANGED <<dvars, mvars>>

\* lines 133-165: one batch
TrainBatch ==
    /\ tpc = "loop"
    /\ consumed < loader.size
    /\ \E regression_loss \in RegressionLosses, classification_loss \in ClassificationLosses :
          LET sum == AddLosses(running, regression_loss, classification_loss)
              log == (batch_i + 1) # 0 /\ (batch_i + 1) % debug_steps = 0
          IN  /\ batch_losses' = Append(batch_losses,
                        [regression_loss |-> regression_loss,
                         classification_loss |-> classification_loss])
              /\ epoch_totals' = AddLosses(epoch_totals, regression_loss, classification_loss)
              /\ running' = IF log THEN Zeros ELSE sum
              /\ logged' = IF log
                           THEN Append(logged, [step |-> batch_i + 1,
                                                len_loader |-> LoaderLen(loader),
                                                avg |-> Averages(sum, debug_steps)])
                           ELSE logged
    /\ batch_i' = batch_i + 1
    /\ consumed' = IF loader.size - consumed < loader.batch_size
                   THEN loader.size ELSE consumed + loader.batch_size
    /\ epoch_steps' = epoch_steps + 1
    /\ UNCHANGED <<loader, debug_steps, tpc, result>>
    /\ UNCHANGED <<dvars, mvars>>

\* lines 166-178: the loader is exhausted
TrainEnd ==
    /\ tpc = "loop"
    /\ consumed = loader.size
    /\ result' = <<Averages(epoch_totals, LoaderLen(loader))>>
    /\ tpc' = "done"
    /\ UNCHANGED <<loader, debug_steps, batch_i, consumed, running, epoch_totals, epoch_steps,
                   batch_losses, logged>>
    /\ UNCHANGED <<dvars, mvars>>

TrainNext ==
    \/ TrainBegin
    \/ TrainBatch
    \/ TrainEnd

SpecTrain == TrainInit /\ [][TrainNext]_vars

\* ================================================================ claims
\* ---- OpenImagesDataset, under Spec

\* the images of the current dataset that hold a box of label c
ImagesOfClass(c) == {k \in 1..Len(data) : c \in Range(data[k].labels)}

\* C1 (as claimed): after _balance_data every class 1..N is held by at most
\* min_image_num images of the balanced dataset, whatever the sampling drew.
C1_EveryClassCapped ==
    (pc = "ready" /\ balance_data) =>
        \A c \in 1..Len(class_names) : Cardinality(ImagesOfClass(c)) <= min_image_num

\* C2: when every class has an image, the balanced dataset holds only records
\* at valid indexes of the original dataset, holds none twice, is not empty
\* and is no longer than the original.
C2_BalancedIsSubset ==
    (pc = "ready" /\ balance_data) =>
        /\ sample_image_indexes \subseteq 0..(Len(read_data) - 1)
        /\ \A k \in 1..Len(data) :
              \E i \in sample_image_indexes : data[k] = read_data[i + 1]
        /\ \A j, k \in 1..Len(data) : j # k => data[j] # data[k]
        /\ Len(data) >= 1
        /\ Len(data) <= Len(read_data)

\* a balanced dataset that dropped an image of the original
C2_Witness ==
    /\ pc = "ready"
    /\ balance_data
    /\ Len(read_data) = 2
    /\ Len(data) = 1
    /\ Len(class_names) = 2

\* the first row of the annotations that names the class
FirstRow(name) == Min({k \in 1..Len(annotations) : annotations[k].ClassName = name})

\* C7: class_names holds every class name of the annotations once, in
\* first-seen order; class_dict has as many entries and maps each name to
\* 1 + its index in class_names; every record has as many labels as boxes,
\* all of them in 1..N.
C7_ReadDataVocabulary ==
    pc # "new" =>
        /\ Range(class_names) = {annotations[k].ClassName : k \in 1..Len(annotations)}
        /\ \A i, j \in 1..Len(class_names) :
              i < j => FirstRow(class_names[i]) < FirstRow(class_names[j])
        /\ DOMAIN class_dict = Range(class_names)
        /\ Len(class_names) = Cardinality(DOMAIN class_dict)
        /\ \A k \in 1..Len(class_names) : class_dict[class_names[k]] = 1 + (k - 1)
        /\ \A k \in 1..Len(data) :
              /\ Len(data[k].boxes) = Len(data[k].labels)
              /\ \A n \in 1..Len(data[k].labels) :
                    data[k].labels[n] \in 1..Len(class_names)

\* two classes read, the later-named one first, and an image with two boxes
C7_Witness ==
    /\ pc = "ready"
    /\ ~balance_data
    /\ Len(class_names) = 2
    /\ class_names[1] > class_names[2]
    /\ \E k \in 1..Len(data) : Len(data[k].labels) = 2

\* C10 (as claimed): __getitem__ returns a sample only for an index in
\* [0, len), and raises IndexError for every other index, negative ones too.
C10_GetOnlyInRange ==
    got.op = "getitem" =>
        /\ got.status = "ok" => got.index \in 0..(Len(data) - 1)
        /\ got.index \notin 0..(Len(data) - 1) => got.status = "IndexError"

\* C10 (amended): __getitem__ raises IndexError exactly for index < -len and
\* index >= len; an index in [-len, 0) reads the record len + index, and a
\* sample returned is the one of the record read.
C10_GetPythonRange ==
    got.op = "getitem" =>
        /\ got.status = "IndexError" <=>
              (got.index < -Len(data) \/ got.index >= Len(data))
        /\ got.status = "ok" =>
              LET record == data[(got.index % Len(data)) + 1]
              IN  /\ got.image = record.image_id
                  /\ got.boxes = record.boxes
                  /\ got.labels = record.labels

\* a negative index that returned the sample of another record than the first
C10_Witness ==
    /\ got.op = "getitem"
    /\ got.index < 0
    /\ got.status = "ok"
    /\ got.image # data[1].image_id

\* ---- train_ssd.py's __main__, under SpecMain

\* a run whose net and scheduler are known, started without --resume
PlainRun ==
    /\ cli.net \in KnownNets
    /\ cli.scheduler \in KnownSchedulers
    /\ cli.resume = <<>>

\* C3 (as claimed): every checkpoint written at the end of an epoch is saved
\* under a name that holds that epoch and the validation loss computed in it,
\* and no save is attempted with a name that is unbound or left from an
\* earlier epoch.
C3_CheckpointNamedByItsEpoch ==
    /\ error # "NameError"
    /\ \A k \in 1..Len(saved) :
          /\ saved[k].model_path.epoch = saved[k].training_epoch
          /\ \E n \in 1..Len(report) :
                /\ report[n].kind = "row"
                /\ report[n].epoch = saved[k].training_epoch
                /\ report[n].validation_loss = saved[k].model_path.loss

\* C4: a run resumed from a checkpoint of stored epoch E executes epoch E + 1
\* first and never executes an epoch numbered E or lower.
C4_ResumeStartsAfterStoredEpoch ==
    (cli.resume # <<>> /\ executed # <<>>) =>
        /\ executed[1] = cli.resume[1].training_epoch + 1
        /\ \A k \in 1..Len(executed) : executed[k] > cli.resume[1].training_epoch

\* a run resumed from a stored epoch above 0 that has executed two epochs
C4_Witness ==
    /\ cli.resume # <<>>
    /\ cli.resume[1].training_epoch > 0
    /\ Len(executed) = 2
    /\ executed[2] = cli.resume[1].training_epoch + 2

\* C5 (as claimed): with freeze_base_net the optimizer has exactly two groups
\* (extra layers at extra_layers_lr, prediction heads at lr), start-up
\* completes, and after a training step the backbone is unchanged while the
\* prediction heads have changed.
C5_FreezeBaseNetTrains ==
    (PlainRun /\ cli.freeze_base_net) =>
        /\ mpc # "crashed"
        /\ mpc \in {"log_lr", "scheduler", "train", "validate", "checkpoint", "done"} =>
              /\ Len(param_groups) = 2
              /\ param_groups[1].lr = OrLr(cli.extra_layers_lr, args.lr)
              /\ param_groups[2].lr = args.lr
        /\ executed # <<>> =>
              /\ updates["base_net"] = 0
              /\ updates["regression_headers"] > 0
              /\ updates["classification_headers"] > 0

\* the run has neither freeze flag and the optimizer has just been made
UnfrozenOptimizerMade ==
    /\ mpc \in {"log_lr", "scheduler"}
    /\ ~cli.freeze_base_net
    /\ ~cli.freeze_net

\* the optimizer's three groups are the backbone, the extra layers and the
\* prediction heads
ThreeGroups ==
    /\ Len(param_groups) = 3
    /\ param_groups[1].parts = {"base_net"}
    /\ param_groups[2].parts = {"source_layer_add_ons", "extras"}
    /\ param_groups[3].parts = {"regression_headers", "classification_headers"}

ReportMatchesValidation ==
    /\ (mpc # "start") => (Len(report) >= 1 /\ report[1] = HeaderLine)
    /\ executed # <<>> => Len(report) >= 1
    /\ \A k \in 2..Len(report) : report[k].kind = "row"
    /\ [k \in 1..(Len(report) - 1) |-> report[k + 1].epoch] = validated
    /\ Range(validated) \subseteq Range(executed)
    /\ \A j, k \in 1..Len(validated) : j < k => validated[j] < validated[k]

\* a step leaves the report alone or adds one line at its end
ReportGrowsByOneLine ==
    \/ report' = report
    \/ /\ Len(report') = Len(report) + 1
       /\ SubSeq(report', 1, Len(report)) = report

\* C8: the loss report is append-only: its header is written once, before
\* the first epoch, and one row is appended for each validated epoch and none
\* for the others, with that epoch's number, so in increasing epoch order.
C8_ReportAppendOnly == []ReportMatchesValidation /\ [][ReportGrowsByOneLine]_vars

\* a finished run that validated some of its epochs, not all
C8_Witness ==
    /\ mpc = "done"
    /\ Len(validated) >= 2
    /\ Len(validated) < Len(executed)
    /\ Len(report) = Len(validated) + 1

\* ---- train_ssd.py's train(), under SpecTrain

RECURSIVE SumSeq(_)
\* the sum of a sequence of numbers
SumSeq(numbers) ==
    IF numbers = <<>> THEN 0
    ELSE SumSeq(SubSeq(numbers, 1, Len(numbers) - 1)) + numbers[Len(numbers)]

\* the sums of the losses of the batches processed
SumOfLosses ==
    SumSeq([k \in 1..Len(batch_losses) |->
                batch_losses[k].regression_loss + batch_losses[k].classification_loss])
SumOfRegressionLosses ==
    SumSeq([k \in 1..Len(batch_losses) |-> batch_losses[k].regression_loss])
SumOfClassificationLosses ==
    SumSeq([k \in 1..Len(batch_losses) |-> batch_losses[k].classification_loss])

\* C9: the averages train() returns are, for each of the three losses, the
\* sum of the pass's per-batch losses over the number of batches processed
\* (not of samples), and the epoch totals are never reset within the pass.
C9_EpochAverageOverBatches ==
    /\ tpc = "loop" =>
          /\ epoch_totals.loss = SumOfLosses
          /\ epoch_totals.regression_loss = SumOfRegressionLosses
          /\ epoch_totals.classification_loss = SumOfClassificationLosses
    /\ tpc = "done" =>
          /\ Len(batch_losses) = epoch_steps
          /\ result[1].loss = <<SumOfLosses, Len(batch_losses)>>
          /\ result[1].regression_loss =
                <<SumOfRegressionLosses, Len(batch_losses)>>
          /\ result[1].classification_loss =
                <<SumOfClassificationLosses, Len(batch_losses)>>

\* a pass of more samples than batches that logged a window and returned
C9_Witness ==
    /\ tpc = "done"
    /\ Len(batch_losses) >= 2
    /\ loader.size > Len(batch_losses)
    /\ logged # <<>>
    /\ result[1].loss[1] > running.loss

\* ---- OpenImagesDataset.__repr__, under Spec

\* the label entries (boxes) of label c in the current dataset
RECURSIVE BoxesOfClass(_, _)
BoxesOfClass(c, n) ==
    IF n = 0 THEN 0
    ELSE BoxesOfClass(c, n - 1)
         + Cardinality({k \in 1..Len(data[n].labels) : data[n].labels[k] = c})

\* C11 (as claimed): the summary reports for every class the number of images
\* of the current dataset that hold the class, an image with several boxes of
\* the class counting once.
C11_SummaryCountsImages ==
    got.op = "repr" =>
        \A c \in 1..Len(class_names) :
            got.distribution[class_names[c]] = Cardinality(ImagesOfClass(c))

\* the summary's numbers are the boxes per class of the current dataset
SummaryCountsBoxes ==
    /\ got.op = "repr" =>
          /\ DOMAIN got.distribution = Range(class_names)
          /\ got.images = Len(data)
          /\ got.distribution = class_stat[1]
    /\ class_stat # NoStat =>
          \A c \in 1..Len(class_names) :
              class_stat[1][class_names[c]] = BoxesOfClass(c, Len(data))

\* the statistics, once computed, are kept
StatisticsCached == (class_stat # NoStat) => (class_stat' = class_stat)

\* C11 (amended): the summary reports for every class the number of boxes
\* (label entries) of the class in the current, post-balancing dataset, an
\* image with several boxes of the class counting once per box; the
\* statistics are computed on the first request and every later request
\* returns the cached values.
C11_SummaryCountsBoxes == []SummaryCountsBoxes /\ [][StatisticsCached]_vars

\* a summary of a dataset with a class that has more boxes than images
C11_Witness ==
    /\ got.op = "repr"
    /\ \E c \in 1..Len(class_names) :
          got.distribution[class_names[c]] > Cardinality(ImagesOfClass(c))

\* ---- train_ssd.py's train(), the logged windows, under SpecTrain

\* the index i of the last batch before the k-th logged window, -1 for none
WindowStart(k) == IF k = 1 THEN -1 ELSE logged[k - 1].step

\* the losses of the batches of the k-th logged window: those after the
\* window's last reset, up to the batch that logged
WindowLosses(k) ==
    SubSeq(batch_losses, WindowStart(k) + 2, logged[k].step + 1)

\* C12 (as claimed): every logged short-window average is the sum of the
\* losses accumulated since the window's last reset over the number of
\* batches accumulated in the window, and every window, the first of the
\* epoch too, spans exactly debug_steps batches.
C12_WindowAverageOverItsBatches ==
    \A k \in 1..Len(logged) :
        LET window == WindowLosses(k)
        IN  /\ Len(window) = debug_steps
            /\ logged[k].avg.loss =
                  <<SumSeq([n \in 1..Len(window) |->
                        window[n].regression_loss + window[n].classification_loss]),
                    Len(window)>>
            /\ logged[k].avg.regression_loss =
                  <<SumSeq([n \in 1..Len(window) |-> window[n].regression_loss]), Len(window)>>
            /\ logged[k].avg.classification_loss =
                  <<SumSeq([n \in 1..Len(window) |-> window[n].classification_loss]),
                    Len(window)>>

\* ---- train_ssd.py's epoch loop, under SpecMain

\* the run went through its loop to the end
RunFinished == mpc = "done" /\ executed # <<>>

\* C13 (as claimed): the final epoch a run executes, fresh or resumed, is
\* validated and checkpointed, whatever the intervals and num_epochs >= 1.
C13_FinalEpochValidatedAndSaved ==
    RunFinished =>
        LET final == executed[Len(executed)]
        IN  /\ final \in Range(validated)
            /\ \E k \in 1..Len(saved) : saved[k].training_epoch = final

\* C14 (as claimed): a run executes num_epochs epochs, 0 .. num_epochs - 1
\* when fresh and E + 1 .. E + num_epochs when resumed from stored epoch E,
\* in increasing order with none skipped or repeated.
C14_RunsNumEpochsEpochs ==
    RunFinished =>
        /\ Len(executed) = cli.num_epochs
        /\ executed[1] = (IF cli.resume = <<>> THEN 0 ELSE cli.resume[1].training_epoch + 1)
        /\ \A k \in 1..(Len(executed) - 1) : executed[k + 1] = executed[k] + 1

====
